---- MODULE Spec2Model ----
(***************************************************************************)
(* ScanSimulator2D (src/src/scan_simulator_2d.cpp): a 2D range finder that *)
(* marches rays through a distance field and intersects them with one      *)
(* square opponent.                                                        *)
(*                                                                         *)
(* Numbers.  Lengths are integers counted in half back-off increments      *)
(* (0.005 world units), so the 0.01 back-off increment is BackStep = 2 and *)
(* one world unit is UnitsPerMetre = 200.  Angles are integers counted in  *)
(* eighths of a turn (AngUnits = 8).  theta_index, a double in the code,   *)
(* is kept as the exact rational theta_index = TI / IndexScale.  The trig  *)
(* tables are kept at the table slots that are multiples of a quarter turn *)
(* where sine, cosine and cotangent are exactly 0, 1 or -1; the opponent   *)
(* heading is a number of quarter turns, so its corners are exact too.     *)
(* sqrt is the integer square root (the reading truncated to the length    *)
(* unit).                                                                  *)
(***************************************************************************)
EXTENDS Integers, Sequences, FiniteSets, TLC

VARIABLES
    \* Scan Configuration, set by the constructor and never written again
    num_beams, field_of_view, scan_std_dev, scan_max_range, cube_width,
    ray_tracing_epsilon, theta_discretization,
    \* per-instance mutable state
    scan_output, noise_generator, can_see_opponent, flag_can_see_opponent,
    \* Distance Field Store
    dt, height, width, resolution, origin,
    \* observer's record of the last call: its arguments, the value of
    \* can_see_opponent before it and the readings it wrote
    last,
    \* observer's record of the first scan of the probe poses on this map
    memo,
    \* observer's record of the most recent scan(pose, opponent_pose, flag)
    \* call: whether there was one, its flag and the result it returned with
    high,
    \* one trace_ray call taken loop iteration by loop iteration
    ray,
    \* the beam loop of scan taken beam by beam
    beam

cfgVars == <<num_beams, field_of_view, scan_std_dev, scan_max_range, cube_width,
             ray_tracing_epsilon, theta_discretization>>
mapVars == <<dt, height, width, resolution, origin>>
objVars == <<scan_output, noise_generator, can_see_opponent, flag_can_see_opponent>>
obsVars == <<last, memo, high>>
vars == <<cfgVars, mapVars, objVars, obsVars, ray, beam>>

----------------------------------------------------------------------------
\* Units and program constants

\* 0.01, the back-off increment, in length units of 0.005
BackStep == 2
\* length units per world unit: 0.01 * 100 = 1
UnitsPerMetre == 100 * BackStep
\* threshold = 5 world units
threshold == 5 * UnitsPerMetre
\* the value set_map gives a free cell before the distance transform
FreeSentinel == 99999
\* angle units in a full turn (2 * M_PI)
AngUnits == 8

\* the one element of a singleton set; {F(v) : v \in {e}} computes e once
The(S) == CHOOSE v \in S : TRUE

Abs(n) == IF n < 0 THEN -n ELSE n
Min(a, b) == IF a < b THEN a ELSE b
Max(a, b) == IF a < b THEN b ELSE a
Sq(n) == n * n

RECURSIVE IsqrtIn(_, _, _)
IsqrtIn(n, lo, hi) ==
    IF lo >= hi THEN lo
    ELSE The({IF mid * mid <= n THEN IsqrtIn(n, mid, hi) ELSE IsqrtIn(n, lo, mid - 1) :
                 mid \in {(lo + hi + 1) \div 2}})

\* sqrt(a*a + b*b), the largest r with r*r <= a*a + b*b; it lies between
\* the larger of |a|, |b| and their sum
Hypot(a, b) ==
    The({IsqrtIn(n, lo, hi) :
            n \in {Sq(a) + Sq(b)}, lo \in {Max(Abs(a), Abs(b))}, hi \in {Abs(a) + Abs(b)}})

\* distance between two points, sqrt(pow(dx, 2) + pow(dy, 2))
Dist(ax, ay, bx, by) == Hypot(ax - bx, ay - by)

----------------------------------------------------------------------------
\* Coordinate Transform and Distance Field Query

\* origin_c, origin_s: cos and sin of origin.theta (a number of quarter turns)
origin_c == <<1, 0, -1, 0>>[(origin.theta % 4) + 1]
origin_s == <<0, 1, 0, -1>>[(origin.theta % 4) + 1]

\* xy_to_row_col with the far edges of the map taken as inside it
xy_to_row_col_inclusive(x, y) ==
    LET x_trans == x - origin.x
        y_trans == y - origin.y
        x_rot == x_trans * origin_c + y_trans * origin_s
        y_rot == (0 - x_trans) * origin_s + y_trans * origin_c
    IN IF x_rot < 0 \/ x_rot > width * resolution
          \/ y_rot < 0 \/ y_rot > height * resolution
       THEN <<-1, -1>>
       ELSE <<y_rot \div resolution, x_rot \div resolution>>

\* xy_to_row_col: <<row, col>>, <<-1, -1>> outside the map
xy_to_row_col(x, y) ==
    LET x_trans == x - origin.x
        y_trans == y - origin.y
        x_rot == x_trans * origin_c + y_trans * origin_s
        y_rot == (0 - x_trans) * origin_s + y_trans * origin_c
    IN IF x_rot < 0 \/ x_rot >= width * resolution
          \/ y_rot < 0 \/ y_rot >= height * resolution
       THEN <<-1, -1>>
       ELSE <<y_rot \div resolution, x_rot \div resolution>>

row_col_to_cell(row, col) == row * width + col

xy_to_cell(x, y) ==
    LET rc == xy_to_row_col(x, y) IN row_col_to_cell(rc[1], rc[2])

distance_transform(x, y) ==
    The({IF cell < 0 THEN 0 ELSE dt[cell] : cell \in {xy_to_cell(x, y)}})

----------------------------------------------------------------------------
\* Map ingestion

\* the thresholding loop of set_map: free cells get the sentinel, others 0
Thresholded(map, free_threshold) ==
    [i \in DOMAIN map |->
        IF 0 <= map[i] /\ map[i] <= free_threshold THEN FreeSentinel ELSE 0]

\* DistanceTransform::distance_2d: every cell gets the distance, in world
\* units, to the nearest occupied (zero) cell; a grid with no occupied cell
\* is left as it is
CellSq(i, j, w) == Sq((i \div w) - (j \div w)) + Sq((i % w) - (j % w))

\* an occupied cell nearest to cell i
Nearest(i, occ, w) == CHOOSE j \in occ : \A o \in occ : CellSq(i, j, w) <= CellSq(i, o, w)

distance_2d(g, w, h, res) ==
    The({[i \in DOMAIN g |->
            IF g[i] = 0 \/ occ = {} THEN g[i]
            ELSE The({Hypot(res * ((i \div w) - (j \div w)), res * ((i % w) - (j % w))) :
                         j \in {Nearest(i, occ, w)}})] :
         occ \in {{j \in DOMAIN g : g[j] = 0}}})

----------------------------------------------------------------------------
\* Angle Cache (constructor)

\* theta_index is TI / IndexScale; IndexScale makes the start index and the
\* per-beam increment integers
IndexScale == 2 * AngUnits * (num_beams - 1)

\* theta_discretization as a scaled index
IndexTurn == theta_discretization * IndexScale

\* angle_increment = field_of_view / (num_beams - 1) and
\* theta_index_increment = theta_discretization * angle_increment / (2 * M_PI),
\* scaled by IndexScale
theta_index_increment == 2 * theta_discretization * field_of_view

\* table slot i holds the angle 2 * M_PI * i / theta_discretization; the slot
\* is kept when that angle is a whole number of quarter turns
QuarterOf(i) == ((4 * i) \div theta_discretization) % 4

sines(i) == <<0, 1, 0, -1>>[QuarterOf(i) + 1]
cosines(i) == <<1, 0, -1, 0>>[QuarterOf(i) + 1]

\* arctanes[i] = 1 / tan(theta): 0 at the odd quarter turns, infinite at the
\* even ones (no number: the slots where the code never uses the value)
arctanes(i) == IF sines(i) = 0 THEN "inf" ELSE cosines(i) \div sines(i)

\* the length of each of the three tables
TableLength == theta_discretization + 1

----------------------------------------------------------------------------
\* Ray Marcher (trace_ray, lines 142-183)

\* distance_to_nearest and total_distance before the marching loop
march_start(x, y) ==
    The({[x |-> x, y |-> y, d |-> d0, total |-> d0, error |-> 0] :
            d0 \in {distance_transform(x, y)}})

\* one iteration of the marching loop up to the test for the back-off
march_step(r, c, s) ==
    The({[x |-> r.x + r.d * c, y |-> r.y + r.d * s, d |-> nd,
          total |-> r.total + nd, error |-> 0] :
            nd \in {distance_transform(r.x + r.d * c, r.y + r.d * s)}})

\* one iteration of the back-off loop
backoff_step(r, c, s) ==
    [r EXCEPT !.error = @ + BackStep, !.x = @ - BackStep * c, !.y = @ - BackStep * s,
              !.d = distance_transform(r.x - BackStep * c, r.y - BackStep * s)]

\* total_distance -= error, after the back-off loop
backoff_end(r) == [r EXCEPT !.total = @ - r.error]

RECURSIVE backoff_loop(_, _, _)
backoff_loop(r, c, s) ==
    IF r.d # 0 THEN r
    ELSE The({backoff_loop(n, c, s) : n \in {backoff_step(r, c, s)}})

RECURSIVE march_loop(_, _, _)
march_loop(r, c, s) ==
    IF r.d = 0 THEN r
    ELSE The({IF n.d = 0 THEN backoff_end(backoff_loop(n, c, s))
              ELSE march_loop(n, c, s) : n \in {march_step(r, c, s)}})

\* the marched endpoint and total_distance of a beam
march(x, y, c, s) == The({march_loop(r, c, s) : r \in {march_start(x, y)}})

----------------------------------------------------------------------------
\* Opponent Collision Module (trace_ray, lines 188-302)

\* corner j (1..4) of the opponent square: center_to_corner at the angle
\* M_PI/4 + (j-1) * M_PI/2 + opponent_theta
corner(j, oX, oY, oTheta) ==
    LET q == ((oTheta + j - 1) % 4) + 1
        co == <<1, 0, -1, 0>>[q]
        si == <<0, 1, 0, -1>>[q]
    IN [x |-> oX + (cube_width \div 2) * (co - si),
        y |-> oY + (cube_width \div 2) * (si + co)]

\* points[j]: the edge from corner j to the next corner
edge(j, oX, oY, oTheta) ==
    LET a == corner(j, oX, oY, oTheta)
        b == corner((j % 4) + 1, oX, oY, oTheta)
    IN [y1 |-> a.y, y2 |-> b.y, x1 |-> a.x, x2 |-> b.x]

\* the beams that take the vertical-line special case
axis_index(idx) ==
    idx = 0 \/ idx = theta_discretization \div 2 \/ idx = theta_discretization

\* the fast rejection: all four corners strictly on one side of the beam line
rejected(idx, ex, ey, original_y, oX, oY, oTheta) ==
    LET cs == {corner(j, oX, oY, oTheta) : j \in 1..4}
    IN IF axis_index(idx)
       THEN \/ \A p \in cs : p.y > original_y
            \/ \A p \in cs : p.y < original_y
       ELSE LET k == arctanes(idx)
                b == ex - k * ey
            IN \/ \A p \in cs : k * p.y + b > p.x
               \/ \A p \in cs : k * p.y + b < p.x

\* the ordering check without its second comparison
ordered_near(this_to_opponent, obstacle_to_opponent, total_distance) ==
    this_to_opponent < total_distance

\* the ordering check: the opponent lies between the sensor and the obstacle
ordered(this_to_opponent, obstacle_to_opponent, total_distance) ==
    this_to_opponent < total_distance /\ obstacle_to_opponent < total_distance

\* the raising condition without the tracking flag
raises_unarmed(flag, this_to_opponent) == this_to_opponent < threshold

\* the raising condition with the threshold distance included
raises_inclusive(flag, this_to_opponent) == flag /\ this_to_opponent <= threshold

\* the condition under which a beam raises can_see_opponent
raises(flag, this_to_opponent) == flag /\ this_to_opponent < threshold

\* the axis reading with the whole side subtracted
axis_reading_full(this_to_opponent) ==
    Min(this_to_opponent - cube_width, scan_max_range)

\* the reading of an axis beam that hits the opponent
axis_reading(this_to_opponent) ==
    Min(this_to_opponent - cube_width \div 2, scan_max_range)

\* the intersection of the beam x = k*y + b with edge j, and whether the filter
\* of lines 284-292 accepts it; a zero denominator gives no finite point
edge_hit(j, k, b, oX, oY, oTheta) ==
    LET e == edge(j, oX, oY, oTheta)
        eps == ray_tracing_epsilon
        num == e.y2 * e.x1 - e.y2 * b + e.y1 * b - e.y1 * e.x2
        den == k * e.y2 - k * e.y1 - e.x2 + e.x1
        iy == num \div den
        ix == k * iy + b
    IN IF den = 0 THEN [ok |-> FALSE, x |-> 0, y |-> 0]
       ELSE [ok |-> /\ \/ (e.y1 + eps >= iy /\ iy >= e.y2 - eps)
                       \/ (e.y1 - eps <= iy /\ iy <= e.y2 + eps)
                    /\ \/ (e.x1 + eps >= ix /\ ix >= e.x2 - eps)
                       \/ (e.x1 - eps <= ix /\ ix <= e.x2 + eps),
             x |-> ix, y |-> iy]

RECURSIVE square_min(_, _, _, _, _, _, _, _, _)
square_min(j, acc, k, b, original_x, original_y, oX, oY, oTheta) ==
    IF j > 4 THEN acc
    ELSE The({square_min(j + 1, nacc, k, b, original_x, original_y, oX, oY, oTheta) :
                 nacc \in {The({IF h.ok
                                THEN Min(acc, Dist(original_x, original_y, h.x, h.y))
                                ELSE acc : h \in {edge_hit(j, k, b, oX, oY, oTheta)}})}})

\* scan_to_square: the nearest accepted intersection, scan_max_range if none
general_reading(idx, ex, ey, original_x, original_y, oX, oY, oTheta) ==
    LET k == arctanes(idx)
        b == ex - k * ey
    IN square_min(1, scan_max_range, k, b, original_x, original_y, oX, oY, oTheta)

\* int theta_index_ = theta_index + 0.5: the conversion truncates toward zero
round_index(ti) ==
    LET n == 2 * ti + IndexScale
        dd == 2 * IndexScale
    IN IF n >= 0 THEN n \div dd ELSE 0 - ((0 - n) \div dd)

\* trace_ray: the reading of one beam and the two visibility fields after it
\* the part of trace_ray after the marching loop: e is the marched endpoint
\* with total_distance, this_to_opponent the distance of line 238
collide(idx, e, x, y, this_to_opponent, oX, oY, oTheta, can, flag) ==
    IF \/ rejected(idx, e.x, e.y, y, oX, oY, oTheta)
       \/ ~ordered(this_to_opponent, Dist(e.x, e.y, oX, oY), e.total)
    THEN [range |-> Min(e.total, scan_max_range), can |-> can, flag |-> flag]
    ELSE [range |-> IF axis_index(idx) THEN axis_reading(this_to_opponent)
                    ELSE general_reading(idx, e.x, e.y, x, y, oX, oY, oTheta),
          can |-> IF raises(flag, this_to_opponent) THEN TRUE ELSE can,
          flag |-> IF raises(flag, this_to_opponent) THEN FALSE ELSE flag]

\* trace_ray: the reading of one beam and the two visibility fields after it
trace_ray(x, y, theta_index, oX, oY, oTheta, can, flag) ==
    The({collide(idx, e, x, y, tto, oX, oY, oTheta, can, flag) :
            idx \in {round_index(theta_index)},
            e \in {march(x, y, cosines(round_index(theta_index)),
                         sines(round_index(theta_index)))},
            tto \in {Dist(x, y, oX, oY)}})

----------------------------------------------------------------------------
\* Scan Orchestrator (scan, lines 79-124)

\* the start index: fmod keeps the sign of the dividend, then one conditional add
start_index(theta) ==
    LET t0 == theta_discretization * (2 * theta - field_of_view) * (num_beams - 1)
        fm == IF t0 >= 0 THEN t0 % IndexTurn ELSE 0 - ((0 - t0) % IndexTurn)
    IN IF fm < 0 THEN fm + IndexTurn ELSE fm

\* while (theta_index >= theta_discretization) theta_index -= theta_discretization
RECURSIVE wrap_index(_)
wrap_index(ti) == IF ti >= IndexTurn THEN wrap_index(ti - IndexTurn) ELSE ti

\* the noise source: the generator state decides the sample and advances
NoiseMod == 2
noise_sample(g) == IF g % 2 = 0 THEN g + 1 ELSE 0 - (g + 1)
noise_next(g) == (g + 1) % NoiseMod

\* the noise test with a standard deviation of 0 taken as noisy
noisy_always == scan_std_dev >= 0

\* whether a reading gets a noise sample added
noisy == scan_std_dev > 0

\* one iteration of the beam loop
beam_step(st, pose, opp) ==
    The({[i |-> st.i + 1,
          ti |-> wrap_index(st.ti + theta_index_increment),
          out |-> Append(st.out,
                         IF noisy THEN t.range + noise_sample(st.gen) ELSE t.range),
          gen |-> IF noisy THEN noise_next(st.gen) ELSE st.gen,
          can |-> t.can,
          flag |-> t.flag] :
            t \in {trace_ray(pose.x, pose.y, st.ti, opp.x, opp.y, opp.theta,
                             st.can, st.flag)}})

RECURSIVE beam_loop(_, _, _)
beam_loop(st, pose, opp) ==
    IF st.i >= num_beams THEN st
    ELSE The({beam_loop(n, pose, opp) : n \in {beam_step(st, pose, opp)}})

\* scan(pose, opponent_pose, scan_data): the buffer and the fields it leaves
scan_buffer(pose, opp, can, flag, gen) ==
    The({beam_loop(st, pose, opp) :
            st \in {[i |-> 0, ti |-> start_index(pose.theta), out |-> <<>>,
                     gen |-> gen, can |-> can, flag |-> flag]}})

\* the query answering with the tracking flag instead of the result
see_opponent_armed == flag_can_see_opponent

\* see_opponent()
see_opponent == can_see_opponent

----------------------------------------------------------------------------
\* Inputs

MapW == 36
MapH == 2
Resolutions == {20 * BackStep}
Origins == {[x |-> 0, y |-> 0, theta |-> 0]}
FreeThresholds == {50}

\* an occupancy grid: in every row column 0 is occupied (100), the columns up
\* to k are free (0), column k is occupied and the columns after it unknown (-1)
WallGrid(w, h, k) ==
    [i \in 0..(w * h - 1) |->
        IF i % w = 0 \/ i % w = k THEN 100 ELSE IF i % w < k THEN 0 ELSE -1]

Grids(w, h) == {WallGrid(w, h, k) : k \in {w - 2, w - 1}}

Configs ==
    {[std |-> 0, range |-> 3 * UnitsPerMetre],
     [std |-> 1, range |-> 3 * UnitsPerMetre]}

Pose(x, y, theta) == [x |-> x, y |-> y, theta |-> theta]

OutsidePoses == {Pose(-50, 10, -1)}

OpponentPoses ==
    {Pose(30, 10, 0), Pose(70, 10, 0), Pose(550, 10, 1), Pose(550, 20, 0),
     Pose(1050, 10, 0), Pose(1150, 10, 0), Pose(1450, 10, 0),
     Pose(60, 50, 0), Pose(550, 60, 0)}
NearOpponents == {Pose(-30, 10, 0), Pose(-50, 20, 1)}

ScanInputs ==
    {[pose |-> Pose(50, 10, -1), opp |-> o] : o \in OpponentPoses}
    \cup {[pose |-> Pose(50, 10, 2), opp |-> o] : o \in {Pose(30, 10, 0), Pose(550, 10, 1)}}
    \cup {[pose |-> p, opp |-> o] : p \in OutsidePoses, o \in NearOpponents}

BufferInputs ==
    {[pose |-> Pose(50, 10, -1), opp |-> Pose(550, 10, 1)],
     [pose |-> Pose(50, 10, -1), opp |-> Pose(550, 60, 0)]}

Probes == {[pose |-> Pose(50, 10, -1), opp |-> Pose(550, 10, 1)]}

\* the seeds the noise generator is constructed from
Seeds == {0}

Idle == [pc |-> "idle"]

----------------------------------------------------------------------------
\* The object: construction, then the first map ingestion.  The constructor
\* leaves can_see_opponent and flag_can_see_opponent unset.

\* the constructor, lines 11-77
Constructed(num_beams_, field_of_view_, c, theta_discretization_, seed) ==
    /\ num_beams = num_beams_
    /\ field_of_view = field_of_view_
    /\ scan_std_dev = c.std
    /\ scan_max_range = c.range
    /\ cube_width = 60
    /\ ray_tracing_epsilon = 1
    /\ theta_discretization = theta_discretization_
    /\ scan_output = [i \in 1..num_beams_ |-> 0]
    /\ noise_generator = seed % NoiseMod
    /\ can_see_opponent \in BOOLEAN
    /\ flag_can_see_opponent \in BOOLEAN

\* the state the first set_map(map, height_, width_, ...) leaves
Mapped(map, height_, width_, resolution_, origin_, free_threshold) ==
    /\ height = height_
    /\ width = width_
    /\ resolution = resolution_
    /\ origin = origin_
    /\ dt = distance_2d(Thresholded(map, free_threshold), width_, height_, resolution_)

Init ==
    /\ \E c \in Configs, seed \in Seeds : Constructed(3, AngUnits \div 2, c, 4, seed)
    /\ \E res \in Resolutions, m \in Grids(MapW, MapH), org \in Origins,
          ft \in FreeThresholds : Mapped(m, MapH, MapW, res, org, ft)
    /\ last = [op |-> "new"]
    /\ high = [ran |-> FALSE]
    /\ \E p \in Probes : memo = [probe |-> p, set |-> FALSE, mid |-> FALSE,
                                 out |-> <<>>, seed |-> noise_generator]
    /\ ray = Idle
    /\ beam = Idle

\* the observer notes the first scan of the probe poses since the map was
\* set, and whether a scan of other poses has run after it
Noted(pose, opp, out) ==
    IF memo.probe = [pose |-> pose, opp |-> opp]
    THEN IF memo.set THEN memo ELSE [memo EXCEPT !.set = TRUE, !.out = out]
    ELSE IF memo.set THEN [memo EXCEPT !.mid = TRUE] ELSE memo

\* scan(pose, opponent_pose, flag)
Scan(pose, opp, flag) ==
    \E r \in {scan_buffer(pose, opp, FALSE, flag, noise_generator)} :
       /\ scan_output' = r.out
       /\ noise_generator' = r.gen
       /\ can_see_opponent' = r.can
       /\ flag_can_see_opponent' = r.flag
       /\ last' = [op |-> "scan", pose |-> pose, opp |-> opp, flag |-> flag,
                   before |-> can_see_opponent, out |-> r.out]
       /\ memo' = Noted(pose, opp, r.out)
       /\ high' = [ran |-> TRUE, flag |-> flag, raised |-> r.can]
       /\ UNCHANGED <<cfgVars, mapVars, ray, beam>>

\* scan(pose, opponent_pose, scan_data): the readings go to the caller's buffer
ScanData(pose, opp) ==
    \E r \in {scan_buffer(pose, opp, can_see_opponent, flag_can_see_opponent,
                           noise_generator)} :
       /\ noise_generator' = r.gen
       /\ can_see_opponent' = r.can
       /\ flag_can_see_opponent' = r.flag
       /\ last' = [op |-> "scan_data", pose |-> pose, opp |-> opp,
                   flag |-> flag_can_see_opponent,
                   before |-> can_see_opponent, out |-> r.out]
       /\ memo' = Noted(pose, opp, r.out)
       /\ UNCHANGED <<cfgVars, mapVars, scan_output, high, ray, beam>>

\* set_map(map, free_threshold)
SetMap(map, free_threshold) ==
    /\ dt' = distance_2d(Thresholded(map, free_threshold), width, height, resolution)
    /\ last' = [op |-> "set_map"]
    /\ memo' = [memo EXCEPT !.set = FALSE, !.mid = FALSE, !.out = <<>>]
    /\ UNCHANGED <<cfgVars, objVars, height, width, resolution, origin, high, ray, beam>>

\* set_map(map, height_, width_, resolution_, origin_, free_threshold)
SetMapFull(map, height_, width_, resolution_, origin_, free_threshold) ==
    /\ height' = height_
    /\ width' = width_
    /\ resolution' = resolution_
    /\ origin' = origin_
    /\ dt' = distance_2d(Thresholded(map, free_threshold), width_, height_, resolution_)
    /\ last' = [op |-> "set_map"]
    /\ memo' = [memo EXCEPT !.set = FALSE, !.mid = FALSE, !.out = <<>>]
    /\ UNCHANGED <<cfgVars, objVars, high, ray, beam>>

Next ==
    \/ \E in \in ScanInputs, flag \in BOOLEAN : Scan(in.pose, in.opp, flag)
    \/ \E in \in BufferInputs : ScanData(in.pose, in.opp)
    \/ \E m \in Grids(width, height), ft \in FreeThresholds : SetMap(m, ft)
    \/ \E m \in Grids(MapW, MapH), res \in Resolutions, org \in Origins,
          ft \in FreeThresholds : SetMapFull(m, MapH, MapW, res, org, ft)

Spec == Init /\ [][Next]_vars

----------------------------------------------------------------------------
\* What a scan does beam by beam, read off the last call's arguments

Beams == 0..(num_beams - 1)

\* whether the last call was a scan (either entry point)
Scanned == last.op \in {"scan", "scan_data"}

\* the theta_index the loop of scan hands to trace_ray for beam i
RECURSIVE beam_index(_, _)
beam_index(theta, i) ==
    IF i = 0 THEN start_index(theta)
    ELSE wrap_index(beam_index(theta, i - 1) + theta_index_increment)

\* theta_index_ of beam i
beam_slot(pose, i) == round_index(beam_index(pose.theta, i))

\* the marched endpoint and total_distance of beam i
beam_end(pose, i) ==
    The({march(pose.x, pose.y, cosines(idx), sines(idx)) : idx \in {beam_slot(pose, i)}})

\* distance(start, opponent_center)
this_to(pose, opp) == Dist(pose.x, pose.y, opp.x, opp.y)

\* for beam i the opponent passes the fast rejection and both comparisons of
\* the ordering check
passes(pose, opp, i) ==
    \E idx \in {beam_slot(pose, i)}, e \in {beam_end(pose, i)} :
       /\ ~rejected(idx, e.x, e.y, pose.y, opp.x, opp.y, opp.theta)
       /\ this_to(pose, opp) < e.total
       /\ Dist(e.x, e.y, opp.x, opp.y) < e.total

\* the reading of beam i with no opponent
wall_reading(pose, i) == Min(beam_end(pose, i).total, scan_max_range)

\* can_see_opponent when the last call began its beam loop
cleared == IF last.op = "scan" THEN FALSE ELSE last.before

\* the point lies outside the map rectangle (map frame not rotated)
outside_map(x, y) ==
    /\ origin.theta = 0
    /\ \/ x - origin.x < 0 \/ x - origin.x >= width * resolution
       \/ y - origin.y < 0 \/ y - origin.y >= height * resolution

\* points on both sides of every edge of the map
edge_points ==
    {<<origin.x + a, origin.y + b>> :
        a \in {-1, 0, width * resolution - 1, width * resolution},
        b \in {-1, 0, height * resolution - 1, height * resolution}}

----------------------------------------------------------------------------
\* Properties of scan

\* C1: with scan_std_dev = 0 every reading a scan writes lies in
\* [0, scan_max_range].
C1_ReadingsInRange ==
    (Scanned /\ scan_std_dev = 0) =>
        \A i \in 1..Len(last.out) : 0 <= last.out[i] /\ last.out[i] <= scan_max_range

\* C2 as stated: a scan with tracking disabled that follows a scan with
\* tracking enabled does not change what see_opponent() returns.
C2_DisabledScanKeepsQuery ==
    [][(last.op = "scan" /\ last.flag /\ last'.op = "scan" /\ ~last'.flag)
          => (see_opponent' <=> see_opponent)]_vars

\* C2 amended: after a scan(pose, opponent_pose, flag) call see_opponent()
\* returns the result of that very call: with tracking enabled, whether some
\* beam found the opponent within the threshold; with tracking disabled, false.
C2_QueryIsLastCall ==
    last.op = "scan" =>
        (see_opponent <=>
            (last.flag /\ \E i \in Beams : /\ passes(last.pose, last.opp, i)
                                          /\ this_to(last.pose, last.opp) < threshold))

C2_Witness ==
    /\ last.op = "scan" /\ ~last.flag /\ last.before /\ ~see_opponent
    /\ memo.set /\ memo.mid

\* C3: when scan(pose, opponent_pose, false) returns, can_see_opponent is
\* false, wherever the opponent is and whatever it was before the call.
C3_DisabledScanIsBlind ==
    (last.op = "scan" /\ ~last.flag) => ~can_see_opponent

C3_Witness ==
    /\ last.op = "scan" /\ ~last.flag /\ last.before /\ ~can_see_opponent
    /\ this_to(last.pose, last.opp) < threshold
    /\ \E i \in Beams : passes(last.pose, last.opp, i)

\* C4: when scan(pose, opponent_pose, true) returns, can_see_opponent is true
\* exactly if for some beam the opponent passed the fast rejection and the
\* ordering check and distance(sensor, opponent_center) < threshold; the
\* value before the call plays no part.
C4_TrackingScanResult ==
    (last.op = "scan" /\ last.flag) =>
        /\ can_see_opponent <=>
              (/\ this_to(last.pose, last.opp) < threshold
               /\ \E i \in Beams : passes(last.pose, last.opp, i))
        /\ this_to(last.pose, last.opp) >= threshold => ~can_see_opponent

C4_Witness ==
    /\ last.op = "scan" /\ last.flag /\ last.before /\ ~can_see_opponent
    /\ this_to(last.pose, last.opp) >= threshold
    /\ \E i \in Beams : passes(last.pose, last.opp, i)

\* C5: with scan_std_dev = 0 the noise generator is never advanced, and a scan
\* of the probe poses writes the readings the first scan of them wrote on this
\* map, whatever ran in between and whatever the tracking flags.
C5_NoiseFreeRepeats ==
    scan_std_dev = 0 =>
        /\ noise_generator = memo.seed
        /\ (Scanned /\ memo.set /\ memo.probe = [pose |-> last.pose, opp |-> last.opp])
              => last.out = memo.out

C5_Witness ==
    /\ scan_std_dev = 0 /\ last.op = "scan" /\ ~last.flag
    /\ memo.set /\ memo.mid /\ memo.probe = [pose |-> last.pose, opp |-> last.opp]
    /\ last.out = memo.out

\* beam i runs along the x axis and the opponent center lies on it, strictly
\* between the sensor and the wall the beam reaches
on_axis_beam(pose, opp, i) ==
    \E idx \in {beam_slot(pose, i)}, e \in {beam_end(pose, i)} :
       /\ axis_index(idx) /\ origin.theta = 0
       /\ opp.y = pose.y
       /\ 0 < (opp.x - pose.x) * cosines(idx)
       /\ (opp.x - pose.x) * cosines(idx) < e.total

\* C6 as stated: such a beam reads min(distance - cube_width/2, scan_max_range)
\* and that is strictly less than the wall-only reading.
C6_StrictlyBelowWall ==
    (Scanned /\ scan_std_dev = 0) =>
        \A i \in Beams : on_axis_beam(last.pose, last.opp, i) =>
            /\ last.out[i + 1] =
                  Min(this_to(last.pose, last.opp) - cube_width \div 2, scan_max_range)
            /\ last.out[i + 1] < wall_reading(last.pose, i)

\* C6 amended: such a beam reads min(distance - cube_width/2, scan_max_range);
\* that is strictly less than the wall-only reading when distance -
\* cube_width/2 < scan_max_range, and equal to it (both scan_max_range) otherwise.
C6_AxisReading ==
    (Scanned /\ scan_std_dev = 0) =>
        \A i \in Beams : on_axis_beam(last.pose, last.opp, i) =>
            \E d \in {this_to(last.pose, last.opp) - cube_width \div 2} :
               /\ last.out[i + 1] = Min(d, scan_max_range)
               /\ d < scan_max_range => last.out[i + 1] < wall_reading(last.pose, i)
               /\ d >= scan_max_range =>
                     /\ last.out[i + 1] = scan_max_range
                     /\ wall_reading(last.pose, i) = scan_max_range

C6_Witness ==
    /\ Scanned /\ scan_std_dev = 0
    /\ \E i \in Beams :
          /\ on_axis_beam(last.pose, last.opp, i)
          /\ this_to(last.pose, last.opp) - cube_width \div 2 < scan_max_range
          /\ 0 < last.out[i + 1]
          /\ last.out[i + 1] < wall_reading(last.pose, i)

\* C7: a beam for which the opponent is rejected or fails either comparison of
\* the ordering check reads min(total, scan_max_range), the reading with no
\* opponent, and a call in which that is so for every beam leaves
\* can_see_opponent as it was when the beam loop began.
C7_OpponentIgnored ==
    Scanned =>
        /\ scan_std_dev = 0 =>
              \A i \in Beams : ~passes(last.pose, last.opp, i) =>
                  last.out[i + 1] = wall_reading(last.pose, i)
        /\ (\A i \in Beams : ~passes(last.pose, last.opp, i)) =>
              can_see_opponent = cleared

C7_Witness ==
    /\ last.op = "scan" /\ last.flag /\ scan_std_dev = 0 /\ ~can_see_opponent
    /\ this_to(last.pose, last.opp) < threshold
    /\ \E i \in Beams :
          \E idx \in {beam_slot(last.pose, i)}, e \in {beam_end(last.pose, i)} :
             /\ ~rejected(idx, e.x, e.y, last.pose.y, last.opp.x, last.opp.y,
                          last.opp.theta)
             /\ this_to(last.pose, last.opp) < e.total
             /\ Dist(e.x, e.y, last.opp.x, last.opp.y) >= e.total
             /\ last.out[i + 1] = wall_reading(last.pose, i)

\* C10: a point outside the map gets row = col = -1, a negative cell index and
\* the distance 0; a scan from a sensor outside the map marches no beam
\* (total 0, no back-off), reads 0 on every beam when scan_std_dev = 0 and
\* does not raise can_see_opponent.
C10_OutsideReadsZero ==
    /\ \A p \in edge_points : outside_map(p[1], p[2]) =>
          /\ xy_to_row_col(p[1], p[2]) = <<-1, -1>>
          /\ xy_to_cell(p[1], p[2]) < 0
          /\ distance_transform(p[1], p[2]) = 0
    /\ (Scanned /\ outside_map(last.pose.x, last.pose.y)) =>
          /\ xy_to_row_col(last.pose.x, last.pose.y) = <<-1, -1>>
          /\ \A i \in Beams :
                beam_end(last.pose, i) =
                    [x |-> last.pose.x, y |-> last.pose.y, d |-> 0, total |-> 0,
                     error |-> 0]
          /\ scan_std_dev = 0 => \A i \in Beams : last.out[i + 1] = 0
          /\ can_see_opponent = cleared

C10_Witness ==
    /\ last.op = "scan" /\ last.flag /\ scan_std_dev = 0
    /\ outside_map(last.pose.x, last.pose.y)
    /\ this_to(last.pose, last.opp) < threshold
    /\ \E i \in Beams :
          ~rejected(beam_slot(last.pose, i), last.pose.x, last.pose.y, last.pose.y,
                    last.opp.x, last.opp.y, last.opp.theta)
    /\ last.out = [i \in 1..num_beams |-> 0]
    /\ ~can_see_opponent

\* C11: the buffer-writing scan resets neither field (it never sets
\* flag_can_see_opponent and clears it only on raising can_see_opponent), never turns
\* can_see_opponent from true to false, and turns it from false to true only
\* when the most recent scan(pose, opponent_pose, flag) call had its flag true
\* and returned with can_see_opponent false; once such a call has run,
\* can_see_opponent implies ~flag_can_see_opponent.
C11_BufferScanKeepsFields ==
    /\ last.op = "scan_data" =>
          /\ last.before => can_see_opponent
          /\ flag_can_see_opponent => last.flag
          /\ (last.flag /\ ~flag_can_see_opponent) => can_see_opponent
          /\ (~last.before /\ can_see_opponent) =>
                (high.ran /\ high.flag /\ ~high.raised)
    /\ high.ran => (can_see_opponent => ~flag_can_see_opponent)

\* a buffer-writing scan, with no scan(pose, opponent_pose, flag) call before
\* it, that turned can_see_opponent from false to true
C11_Witness ==
    /\ last.op = "scan_data" /\ ~high.ran
    /\ ~last.before /\ last.flag
    /\ can_see_opponent /\ ~flag_can_see_opponent
    /\ this_to(last.pose, last.opp) < threshold
    /\ \E i \in Beams : passes(last.pose, last.opp, i)

----------------------------------------------------------------------------
\* trace_ray's marching loop, one loop iteration per step (lines 140-183)

RayW == 8
RayH == 2
MaxBackoffs == 12

\* the maps rays are traced on: [w, h, res, k], a WallGrid(w, h, k) with cells
\* of side res
RayMaps ==
    {[w |-> RayW, h |-> RayH, res |-> 5, k |-> RayW - 1],
     [w |-> RayW, h |-> 1, res |-> BackStep, k |-> RayW - 2],
     [w |-> 3, h |-> 1, res |-> 1, k |-> 2]}

\* start points: inside the map, on its edges and one cell outside
RayStarts ==
    {<<x, y>> : x \in (0 - resolution)..(width * resolution),
                y \in {0 - 1, 0, height * resolution - 1}}

InitRay ==
    /\ \E c \in {cf \in Configs : cf.std = 0}, seed \in Seeds :
          Constructed(3, AngUnits \div 2, c, 4, seed)
    /\ \E m \in RayMaps, org \in Origins, ft \in FreeThresholds :
          Mapped(WallGrid(m.w, m.h, m.k), m.h, m.w, m.res, org, ft)
    /\ last = [op |-> "new"]
    /\ high = [ran |-> FALSE]
    /\ \E p \in Probes : memo = [probe |-> p, set |-> FALSE, mid |-> FALSE,
                                 out |-> <<>>, seed |-> noise_generator]
    /\ ray = Idle
    /\ beam = Idle

rayFrame == <<cfgVars, mapVars, objVars, obsVars, beam>>

\* lines 130-143: the table lookups and the first distance query
RayStart(x, y, theta_index_) ==
    /\ ray.pc = "idle"
    /\ \E r \in {march_start(x, y)} :
          ray' = [pc |-> IF r.d = 0 THEN "done" ELSE "march",
                  c |-> cosines(theta_index_), s |-> sines(theta_index_), at |-> r]
    /\ UNCHANGED rayFrame

\* lines 146-160: one iteration of while (distance_to_nearest != 0)
RayMarch ==
    /\ ray.pc = "march"
    /\ \E n \in {march_step(ray.at, ray.c, ray.s)} :
          ray' = [ray EXCEPT !.at = n, !.pc = IF n.d = 0 THEN "backoff" ELSE "march"]
    /\ UNCHANGED rayFrame

\* lines 170-177: one iteration of while (distance_to_nearest == 0)
RayBackoff ==
    /\ ray.pc = "backoff"
    /\ ray.at.d = 0
    /\ ray.at.error < MaxBackoffs * BackStep
    /\ ray' = [ray EXCEPT !.at = backoff_step(ray.at, ray.c, ray.s)]
    /\ UNCHANGED rayFrame

\* lines 178-180: the back-off loop is left, total_distance -= error; break
RayBackoffEnd ==
    /\ ray.pc = "backoff"
    /\ ray.at.d # 0
    /\ ray' = [ray EXCEPT !.at = backoff_end(ray.at), !.pc = "done"]
    /\ UNCHANGED rayFrame

\* the marching part of the call is over
RayReturn ==
    /\ ray.pc = "done"
    /\ ray' = Idle
    /\ UNCHANGED rayFrame

NextRay ==
    \/ \E p \in RayStarts, idx \in 0..theta_discretization : RayStart(p[1], p[2], idx)
    \/ RayMarch
    \/ RayBackoff
    \/ RayBackoffEnd
    \/ RayReturn

SpecRay == InitRay /\ [][NextRay]_vars

\* the number of back-off steps after which the point has crossed the whole
\* map and every later point is outside it
backoff_reach == 2 * (width + height) * resolution + MaxBackoffs

\* C8: the back-off loop reaches a point whose queried distance is nonzero:
\* whenever the loop is at a point of distance 0, some later point of its walk
\* has a nonzero distance.
C8_BackoffEnds ==
    (ray.pc = "backoff" /\ ray.at.d = 0) =>
        \E k \in 1..backoff_reach :
            distance_transform(ray.at.x - k * BackStep * ray.c,
                               ray.at.y - k * BackStep * ray.s) # 0

\* a trace_ray call whose back-off walk has left the map on the sensor's side
\* with the loop still running
C8_Witness ==
    /\ ray.pc = "backoff" /\ ray.at.d = 0 /\ ray.at.error > 0
    /\ outside_map(ray.at.x, ray.at.y)
    /\ ray.at.error > ray.at.total

----------------------------------------------------------------------------
\* The beam loop of scan, one statement per step (lines 98-123)

MaxBeams == 3
MaxDisc == 4
MaxFov == 6
MaxTurns == 1

\* sensor headings, in angle units
Headings == (0 - AngUnits * MaxTurns - 1)..(AngUnits * MaxTurns + 1)

InitIdx ==
    /\ \E nb \in 2..MaxBeams, fov \in (0 - MaxFov)..MaxFov, disc \in 2..MaxDisc,
          c \in {cf \in Configs : cf.std = 0}, seed \in Seeds :
          Constructed(nb, fov, c, disc, seed)
    /\ \E m \in RayMaps, org \in Origins, ft \in FreeThresholds :
          /\ m.res = 1
          /\ Mapped(WallGrid(m.w, m.h, m.k), m.h, m.w, m.res, org, ft)
    /\ last = [op |-> "new"]
    /\ high = [ran |-> FALSE]
    /\ \E p \in Probes : memo = [probe |-> p, set |-> FALSE, mid |-> FALSE,
                                 out |-> <<>>, seed |-> noise_generator]
    /\ ray = Idle
    /\ beam = Idle

idxFrame == <<cfgVars, mapVars, objVars, obsVars, ray>>

\* lines 98-103: the start index
IdxStart(theta) ==
    /\ beam.pc = "idle"
    /\ beam' = [pc |-> "call", i |-> 0, ti |-> start_index(theta)]
    /\ UNCHANGED idxFrame

\* lines 109-116: trace_ray(pose.x, pose.y, theta_index, ...) is called and
\* the index advanced
IdxTrace ==
    /\ beam.pc = "call"
    /\ beam' = [beam EXCEPT !.pc = "wrap", !.ti = @ + theta_index_increment]
    /\ UNCHANGED idxFrame

\* lines 120-121: one iteration of while (theta_index >= theta_discretization)
IdxWrap ==
    /\ beam.pc = "wrap"
    /\ beam.ti >= IndexTurn
    /\ beam' = [beam EXCEPT !.ti = @ - IndexTurn]
    /\ UNCHANGED idxFrame

\* line 107: the wrap loop is left, i++ and the test i < num_beams
IdxNext ==
    /\ beam.pc = "wrap"
    /\ beam.ti < IndexTurn
    /\ beam' = [beam EXCEPT !.i = @ + 1,
                            !.pc = IF beam.i + 1 < num_beams THEN "call" ELSE "done"]
    /\ UNCHANGED idxFrame

\* scan returns
IdxReturn ==
    /\ beam.pc = "done"
    /\ beam' = Idle
    /\ UNCHANGED idxFrame

NextIdx ==
    \/ \E theta \in Headings : IdxStart(theta)
    \/ IdxTrace
    \/ IdxWrap
    \/ IdxNext
    \/ IdxReturn

SpecIdx == InitIdx /\ [][NextIdx]_vars

\* C9: when trace_ray is called the running index is in
\* [0, theta_discretization), so the rounded index is in
\* [0, theta_discretization] and inside the tables of length
\* theta_discretization + 1.
C9_IndexInTable ==
    beam.pc = "call" =>
        /\ 0 <= beam.ti /\ beam.ti < IndexTurn
        /\ 0 <= round_index(beam.ti) /\ round_index(beam.ti) < TableLength

\* a trace_ray call of a later beam whose rounded index is before the tables
C9_Witness ==
    /\ beam.pc = "call" /\ beam.i > 0
    /\ field_of_view < 0
    /\ round_index(beam.ti) < 0

====
